---- MODULE Spec2Model ----
(***************************************************************************)
(* Model of the per-core engine layer of the kernel:                       *)
(*   - EngineThread (a realm) and its message queue, with the two producer *)
(*     paths PushMessage / PushMessageIRQ and the consumer TakeMessages;   *)
(*   - Engine::Threads (the registry): Create / TakeNewThreads;            *)
(*   - Engine::Enter and Isolate::Enter / NewThreads / ProcessNewThreads.  *)
(*                                                                         *)
(* The queue is modelled at the grain of its lock: every handler is split  *)
(* where another core or an interrupt handler can interleave (interrupt    *)
(* flag change, lock acquisition, body + lock release, interrupt flag      *)
(* restore).  The body operators are shared with the specification that    *)
(* runs whole handlers atomically on a single core (SpecBurst).            *)
(***************************************************************************)
EXTENDS Integers, Sequences, FiniteSets, TLC

\* ------------------------------------------------------------------ bounds
\* Number of cores that run code touching the realm's queue.
NumCores == 2
\* Pushes (of either kind) issued in one run of Spec.
MaxPushes == 3
\* Ordinary-context and interrupt-context pushes issued in one run of SpecBurst.
BurstOrd == 2
BurstIrq == 150

\* Realms created in one run of SpecKernel.
MaxRealms == 3
\* Invocations of Engine::Enter on one Engine.
MaxEnters == 2
\* Timer ticks delivered to one core.
MaxTicks == 2
\* Calls of Isolate::Init on one Isolate.
MaxInits == 2
\* Pushes of each kind issued in one run of SpecEngine.
EnginePushes == 1
\* Threads of one scheduler besides its idle thread.
MaxThreads == 1
\* ThreadMessage objects constructed in one run of SpecMsg.
MaxMsgs == 2

\* ------------------------------------------------------- program constants
\* messages_.reserve(128) in TakeMessages.
ReserveSlack == 128
\* `1 == cpu_id` in Engine::Enter: the core that runs the startup script.
BootCpuId == 1

Cores == 1 .. NumCores
\* The core whose scheduler runs the realm: the only caller of TakeMessages.
Owner == CHOOSE c \in Cores : \A d \in Cores : c <= d

\* A message is identified by the path that built it and a per-path serial
\* number; NullMsg is the null pointer.
NullMsg == <<"null", 0>>
\* The value of a lock nobody holds.
Free == <<0, "free">>

\* Realms are numbered in the order `new EngineThread` yields them.
Realms == 1 .. MaxRealms
EngineTypes == {"DISABLED", "EXECUTION", "SERVICE"}
\* Values of a local-storage slot; NoValue is a slot never set.
Values == {"a", "b"}
NoValue == "unset"
\* No core (an unlocked Locker, no call target), no Isolate id.
NoCore == 0
NoId == -1
\* tpl_cache_(nullptr) in Isolate::Isolate.
NoCache == 0
\* The scheduler's threads: its idle thread, always there, and the others.
IdleThread == 0
Threads == IdleThread .. MaxThreads
\* The current thread of a core that has no scheduler.
NoThread == -1
OrdMsg(n) == <<"ord", n>>
IrqMsg(n) == <<"irq", n>>

\* enum class ThreadMessage::Type.
Type == {"EMPTY", "SET_ARGUMENTS", "EVALUATE", "TIMEOUT_EVENT", "IRQ_RAISE",
         "FUNCTION_CALL", "FUNCTION_RETURN_RESOLVE", "FUNCTION_RETURN_REJECT"}
\* The kinds of the messages constructed in SpecMsg: the call/return
\* kinds and one of the others.
SentTypes == {"IRQ_RAISE", "FUNCTION_CALL", "FUNCTION_RETURN_RESOLVE",
              "FUNCTION_RETURN_REJECT"}
\* An empty ResourceHandle<EngineThread>, and the sender handles used.
NoSender == 0
Senders == {NoSender, 1}
\* recv_index arguments used: the default, 0, and another.
RecvIndices == {0, 5}

VARIABLES
    \* EngineThread
    messages_,      \* contents of the live queue, head first
    capacity,       \* messages_.capacity()
    c_locker_,      \* Free, or <<core, "thr" | "irq">>: the holder
    \* per core
    intf,           \* the core's interrupt-enable flag
    tpc,            \* where the core's ordinary-context code is
    ipc,            \* where the core's interrupt handler is ("none": not running)
    tmsg,           \* the message argument of the running PushMessage
    imsg,           \* the message argument of the running PushMessageIRQ
    s,              \* TakeMessages' local vector, held until the call returns
    nextOrd,        \* serial number of the next ordinary-context message
    nextIrq,        \* serial number of the next interrupt-context message
    fatal,          \* "none", or the RT_ASSERT that aborted the kernel
    \* history
    accepted,       \* messages appended to the queue, in lock order
    dropped,        \* messages discarded by PushMessageIRQ
    drained,        \* concatenation of all TakeMessages results
    burstCap,       \* capacity of the live queue when the last drain returned
    burstFrom,      \* nextIrq when the last drain returned
    burstPure,      \* no ordinary-context push since the last drain returned
    drains,         \* whether any drain has returned yet
    \* Engine, per core
    type_,          \* EngineType of the core's Engine
    isolate_,       \* whether Engine::isolate_ is non-null
    init_,          \* Engine::init_
    local_storage_, \* Engine::local_storage_ (one slot)
    id_,            \* Isolate::id_ of the core's Isolate
    startup_script_,\* Isolate::startup_script_ of the core's Isolate
    thread_storage, \* local storage of the thread scheduled on the core
    \* Engine::Threads, per core
    threads_,       \* every realm created on the Engine
    new_threads_,   \* handles not yet taken by the Isolate
    datalocker_,    \* Free, or the core holding the lock
    \* EngineThread, per realm
    thread_,        \* CreateThread results stored in thread_ so far (0: nullptr)
    nextRealm,      \* the next realm `new EngineThread` yields
    \* control, per core
    phase,          \* "boot", "hang", "spin", "enter" (Isolate::Enter), "run"
    op,             \* "none", "create", "take", "attach": the call in progress
    tgt,            \* the Engine whose Create is in progress
    transport,      \* TakeNewThreads' result, then NewThreads' argument
    idx,            \* elements of transport NewThreads has processed
    observed,       \* the core whose Engine and registry are followed
    \* history
    staged,         \* handles Create returned since the last TakeNewThreads
    stagedAtEnter,  \* realms staged when Isolate::Enter was called
    claimed,        \* realms some TakeNewThreads has returned
    built,          \* Isolates constructed for the core's Engine
    \* Engine and Isolate, per core
    entered,        \* invocations of Engine::Enter on the core's Engine
    ticks_counter_, \* Isolate::ticks_counter_
    tpl_cache_,     \* Isolate::tpl_cache_ (NoCache: nullptr)
    caches,         \* TemplateCache objects constructed so far
    ticked,         \* history: Engine::TimerTick calls on the core
    inits,          \* history: Isolate::Init calls on the core's Isolate
    current_thread_,\* ThreadManager's current thread (NoThread: no scheduler)
    got,            \* what the last ThreadLocalGet returned
    asked,          \* history: the store that ThreadLocalGet was due to read
    wroteEngine,    \* history: last value set while the Engine had no Isolate
    wroteThread,    \* history: last value set, per thread then scheduled
    \* ThreadMessage objects
    heap,           \* the live ThreadMessage objects, by message
    made,           \* history: the constructor arguments of each message
    processed,      \* messages of the drained batch the consumer is done with
    read            \* what the consumer's last accessor call returned

qvars == <<messages_, capacity, c_locker_, intf, tpc, ipc, tmsg, imsg, s,
           nextOrd, nextIrq, accepted, dropped, drained>>
bvars == <<burstCap, burstFrom, burstPure, drains>>
engvars == <<type_, isolate_, init_, local_storage_, id_, startup_script_,
             thread_storage>>
regvars == <<threads_, new_threads_, datalocker_, thread_, nextRealm>>
ctlvars == <<phase, op, tgt, transport, idx, observed>>
khist == <<staged, stagedAtEnter, claimed, built>>
lifevars == <<entered, ticks_counter_, tpl_cache_, caches, ticked, inits>>
locvars == <<current_thread_, got, asked, wroteEngine, wroteThread>>
msgvars == <<heap, made, processed, read>>
xvars == <<lifevars, locvars, msgvars>>
kvars == <<engvars, regvars, ctlvars, khist, xvars>>
vars == <<qvars, bvars, fatal, kvars>>

\* ---------------------------------------------------------------- helpers
Last(q) == q[Len(q)]
Min(a, b) == IF a <= b THEN a ELSE b

RECURSIVE IsSubseq(_, _)
\* a is a subsequence of b (order kept, elements of b may be skipped)
IsSubseq(a, b) ==
    IF a = <<>> THEN TRUE
    ELSE IF b = <<>> THEN FALSE
    ELSE IF Head(a) = Head(b) THEN IsSubseq(Tail(a), Tail(b))
    ELSE IsSubseq(a, Tail(b))

Range(q) == {q[i] : i \in 1 .. Len(q)}
NoDup(q) == \A i, j \in 1 .. Len(q) : i # j => q[i] # q[j]

\* ------------------------------------------------ the vector operations
\* Capacities a growing push_back may leave: the vector's growth policy is
\* not fixed by the kernel sources, so both the tight and the doubling
\* policy are allowed.
GrowChoices(cap) == {cap + 1, IF cap = 0 THEN 1 ELSE 2 * cap}

\* Mutant of PushBack: the ordinary path refuses to grow a full vector.
PushBack_NoGrow(q, cap, m) ==
    {IF Len(q) < cap THEN [msgs |-> Append(q, m), cap |-> cap]
                     ELSE [msgs |-> q, cap |-> cap]}

\* messages_.push_back(message.release()) in PushMessage: always appends;
\* reallocates when the vector is full.
PushBack(q, cap, m) ==
    {[msgs |-> Append(q, m), cap |-> c] :
        c \in IF Len(q) < cap THEN {cap} ELSE GrowChoices(cap)}

\* Mutant of PushBackIRQ: the capacity test is off by one, so a full
\* vector is appended to (and has to grow).
PushBackIRQ_OffByOne(q, cap, m) ==
    IF Len(q) <= cap
        THEN [msgs |-> Append(q, m),
              cap |-> IF Len(q) < cap THEN cap ELSE cap + 1, took |-> TRUE]
        ELSE [msgs |-> q, cap |-> cap, took |-> FALSE]

\* Mutant of PushBackIRQ: a full queue overwrites its newest element
\* instead of dropping the incoming one.
PushBackIRQ_Overwrite(q, cap, m) ==
    IF Len(q) < cap
        THEN [msgs |-> Append(q, m), cap |-> cap, took |-> TRUE]
        ELSE IF Len(q) = 0 THEN [msgs |-> q, cap |-> cap, took |-> FALSE]
        ELSE [msgs |-> [q EXCEPT ![Len(q)] = m], cap |-> cap, took |-> TRUE]

\* The guarded push_back of PushMessageIRQ: appends only within the
\* capacity already reserved, never reallocates.
PushBackIRQ(q, cap, m) ==
    IF Len(q) < cap
        THEN [msgs |-> Append(q, m), cap |-> cap, took |-> TRUE]
        ELSE [msgs |-> q, cap |-> cap, took |-> FALSE]

\* Mutant of SwapAndReserve: the live vector is cleared and keeps the
\* storage it had grown to.
SwapAndReserve_KeepStorage(q, cap) ==
    IF Len(q) = 0
        THEN [ret |-> <<>>, msgs |-> q, cap |-> cap]
        ELSE [ret |-> q, msgs |-> <<>>,
              cap |-> IF ReserveSlack > cap THEN ReserveSlack ELSE cap]

\* Mutant of SwapAndReserve: the batch is moved out and lost.
SwapAndReserve_Clear(q, cap) ==
    IF Len(q) = 0
        THEN [ret |-> <<>>, msgs |-> q, cap |-> cap]
        ELSE [ret |-> <<>>, msgs |-> <<>>, cap |-> ReserveSlack]

\* Mutant of SwapAndReserve: the slack is reserved before the size test.
SwapAndReserve_ReserveFirst(q, cap) ==
    IF Len(q) = 0
        THEN [ret |-> <<>>, msgs |-> q,
              cap |-> IF ReserveSlack > cap THEN ReserveSlack ELSE cap]
        ELSE [ret |-> q, msgs |-> <<>>, cap |-> ReserveSlack]

\* Mutant of SwapAndReserve: the batch is copied out, not swapped out.
SwapAndReserve_Copy(q, cap) ==
    IF Len(q) = 0
        THEN [ret |-> <<>>, msgs |-> q, cap |-> cap]
        ELSE [ret |-> q, msgs |-> q,
              cap |-> IF ReserveSlack > cap THEN ReserveSlack ELSE cap]

\* Mutant of SwapAndReserve: the early return also fires for one message.
SwapAndReserve_EarlyReturn(q, cap) ==
    IF Len(q) <= 1
        THEN [ret |-> <<>>, msgs |-> q, cap |-> cap]
        ELSE [ret |-> q, msgs |-> <<>>, cap |-> ReserveSlack]

\* The critical section of TakeMessages: early return of the empty local
\* vector when the queue is empty, otherwise swap with the local vector
\* (size 0, capacity 0) and reserve(128) on the live one.
SwapAndReserve(q, cap) ==
    IF Len(q) = 0
        THEN [ret |-> <<>>, msgs |-> q, cap |-> cap]
        ELSE [ret |-> q, msgs |-> <<>>,
              cap |-> ReserveSlack]

\* -------------------------------------------------------------------- Init
\* EngineThread::EngineThread: an empty queue with nothing reserved.
QueueInit ==
    /\ messages_ = <<>>
    /\ capacity = 0
    /\ c_locker_ = Free
    /\ intf = [c \in Cores |-> TRUE]
    /\ tpc = [c \in Cores |-> "idle"]
    /\ ipc = [c \in Cores |-> "none"]
    /\ tmsg = [c \in Cores |-> NullMsg]
    /\ imsg = [c \in Cores |-> NullMsg]
    /\ s = <<>>
    /\ nextOrd = 1
    /\ nextIrq = 1
    /\ fatal = "none"
    /\ accepted = <<>>
    /\ dropped = {}
    /\ drained = <<>>
    /\ burstCap = 0
    /\ burstFrom = 1
    /\ burstPure = TRUE
    /\ drains = FALSE
    /\ heap = <<>>
    /\ made = <<>>
    /\ processed = 0
    /\ read = <<"none">>

\* The Engine of core `me`, of role `type`, is fresh (Engine::Engine,
\* Threads::Threads) and its core still in the boot code; the other cores
\* are executing cores already inside their run loops, with an Isolate as
\* Engine::Enter builds it, and act as callers of the observed registry.
EngineInit(me, type) ==
    /\ observed = me
    /\ type_ = [c \in Cores |-> IF c = me THEN type ELSE "EXECUTION"]
    /\ isolate_ = [c \in Cores |-> c # me]
    /\ init_ = [c \in Cores |-> c # me]
    /\ local_storage_ = [c \in Cores |-> NoValue]
    /\ id_ = [c \in Cores |-> IF c = me THEN NoId ELSE c]
    /\ startup_script_ = [c \in Cores |-> c # me /\ c = BootCpuId]
    /\ thread_storage = [c \in Cores |-> [t \in Threads |-> NoValue]]
    /\ threads_ = [c \in Cores |-> <<>>]
    /\ new_threads_ = [c \in Cores |-> <<>>]
    /\ datalocker_ = [c \in Cores |-> NoCore]
    /\ thread_ = [r \in Realms |-> 0]
    /\ nextRealm = 1
    /\ phase = [c \in Cores |-> IF c = me THEN "boot" ELSE "run"]
    /\ op = [c \in Cores |-> "none"]
    /\ tgt = [c \in Cores |-> NoCore]
    /\ transport = [c \in Cores |-> <<>>]
    /\ idx = [c \in Cores |-> 0]
    /\ staged = [c \in Cores |-> <<>>]
    /\ stagedAtEnter = [c \in Cores |-> {}]
    /\ claimed = {}
    /\ built = [c \in Cores |-> IF c = me THEN 0 ELSE 1]
    /\ entered = [c \in Cores |-> IF c = me THEN 0 ELSE 1]
    /\ ticks_counter_ = [c \in Cores |-> 0]
    /\ tpl_cache_ = [c \in Cores |-> NoCache]
    /\ caches = [c \in Cores |-> 0]
    /\ ticked = [c \in Cores |-> 0]
    /\ inits = [c \in Cores |-> 0]
    /\ current_thread_ = [c \in Cores |-> IF c = me THEN NoThread ELSE IdleThread]
    /\ got = [c \in Cores |-> NoValue]
    /\ asked = [c \in Cores |-> <<"never">>]
    /\ wroteEngine = [c \in Cores |-> NoValue]
    /\ wroteThread = [c \in Cores |-> [t \in Threads |-> NoValue]]

\* The queue specifications look at one realm of an executing core.
Init == QueueInit /\ EngineInit(Owner, "EXECUTION")

\* Pushes issued so far.
Pushes == (nextOrd - 1) + (nextIrq - 1)

\* A core's ordinary-context code runs only while no interrupt handler is
\* running on that core, and nothing runs after a fatal assertion.
ThreadRuns(c) == fatal = "none" /\ ipc[c] = "none"
IrqRuns(c) == fatal = "none" /\ ipc[c] # "none"

\* ------------------------------------------------------------ PushMessage
\* Mutant of PushMessageBegin: the push does not disable interrupts.
PushMessageBegin_NoCli(c) ==
    /\ ThreadRuns(c)
    /\ tpc[c] = "idle"
    /\ Pushes < MaxPushes
    /\ \E m \in {OrdMsg(nextOrd), NullMsg} :
        tmsg' = [tmsg EXCEPT ![c] = m]
    /\ nextOrd' = nextOrd + 1
    /\ tpc' = [tpc EXCEPT ![c] = "push_lock"]
    /\ UNCHANGED <<messages_, capacity, c_locker_, intf, ipc, imsg, s, nextIrq,
                   fatal, accepted, dropped, drained, bvars, kvars>>

\* The call, and NoInterrupsScope's constructor: interrupts off on this core.
PushMessageBegin(c) ==
    /\ ThreadRuns(c)
    /\ tpc[c] = "idle"
    /\ Pushes < MaxPushes
    /\ \E m \in {OrdMsg(nextOrd), NullMsg} :
        tmsg' = [tmsg EXCEPT ![c] = m]
    /\ nextOrd' = nextOrd + 1
    /\ intf' = [intf EXCEPT ![c] = FALSE]
    /\ tpc' = [tpc EXCEPT ![c] = "push_lock"]
    /\ UNCHANGED <<messages_, capacity, c_locker_, ipc, imsg, s, nextIrq,
                   fatal, accepted, dropped, drained, bvars, kvars>>

\* ScopedLock lock(c_locker_): spins until the lock is free.
PushMessageLock(c) ==
    /\ ThreadRuns(c)
    /\ tpc[c] = "push_lock"
    /\ c_locker_ = Free
    /\ c_locker_' = <<c, "thr">>
    /\ tpc' = [tpc EXCEPT ![c] = "push_body"]
    /\ UNCHANGED <<messages_, capacity, intf, ipc, tmsg, imsg, s, nextOrd,
                   nextIrq, fatal, accepted, dropped, drained, bvars, kvars>>

\* RT_ASSERT(message); push_back; the lock is released at scope exit.
PushMessageBody(c) ==
    /\ ThreadRuns(c)
    /\ tpc[c] = "push_body"
    /\ IF tmsg[c] = NullMsg
        THEN /\ fatal' = "PushMessage: RT_ASSERT(message)"
             /\ UNCHANGED <<messages_, capacity, c_locker_, tpc, accepted>>
        ELSE /\ \E r \in PushBack(messages_, capacity, tmsg[c]) :
                   /\ messages_' = r.msgs
                   /\ capacity' = r.cap
             /\ accepted' = Append(accepted, tmsg[c])
             /\ c_locker_' = Free
             /\ tpc' = [tpc EXCEPT ![c] = "push_sti"]
             /\ UNCHANGED fatal
    /\ UNCHANGED <<intf, ipc, tmsg, imsg, s, nextOrd, nextIrq, dropped,
                   drained, bvars, kvars>>

\* NoInterrupsScope's destructor: interrupts back on; the call returns and
\* its argument is gone.
PushMessageEnd(c) ==
    /\ ThreadRuns(c)
    /\ tpc[c] = "push_sti"
    /\ intf' = [intf EXCEPT ![c] = TRUE]
    /\ tpc' = [tpc EXCEPT ![c] = "idle"]
    /\ tmsg' = [tmsg EXCEPT ![c] = NullMsg]
    /\ UNCHANGED <<messages_, capacity, c_locker_, ipc, imsg, s,
                   nextOrd, nextIrq, fatal, accepted, dropped, drained, bvars, kvars>>

\* --------------------------------------------------------- PushMessageIRQ
\* An interrupt is taken on core c (only with interrupts enabled; the
\* hardware disables them for the handler), and the handler calls
\* PushMessageIRQ, which leaves the interrupt flag alone.
PushMessageIRQBegin(c) ==
    /\ fatal = "none"
    /\ ipc[c] = "none"
    /\ intf[c]
    /\ Pushes < MaxPushes
    /\ \E m \in {IrqMsg(nextIrq), NullMsg} :
        imsg' = [imsg EXCEPT ![c] = m]
    /\ nextIrq' = nextIrq + 1
    /\ intf' = [intf EXCEPT ![c] = FALSE]
    /\ ipc' = [ipc EXCEPT ![c] = "irq_lock"]
    /\ UNCHANGED <<messages_, capacity, c_locker_, tpc, tmsg, s, nextOrd,
                   fatal, accepted, dropped, drained, bvars, kvars>>

\* ScopedLock lock(c_locker_)
PushMessageIRQLock(c) ==
    /\ IrqRuns(c)
    /\ ipc[c] = "irq_lock"
    /\ c_locker_ = Free
    /\ c_locker_' = <<c, "irq">>
    /\ ipc' = [ipc EXCEPT ![c] = "irq_body"]
    /\ UNCHANGED <<messages_, capacity, intf, tpc, tmsg, imsg, s, nextOrd,
                   nextIrq, fatal, accepted, dropped, drained, bvars, kvars>>

\* RT_ASSERT(message); the guarded push_back; lock released at scope exit.
PushMessageIRQBody(c) ==
    /\ IrqRuns(c)
    /\ ipc[c] = "irq_body"
    /\ IF imsg[c] = NullMsg
        THEN /\ fatal' = "PushMessageIRQ: RT_ASSERT(message)"
             /\ UNCHANGED <<messages_, capacity, c_locker_, ipc, accepted,
                            dropped>>
        ELSE /\ LET r == PushBackIRQ(messages_, capacity, imsg[c]) IN
                   /\ messages_' = r.msgs
                   /\ capacity' = r.cap
                   /\ accepted' = IF r.took THEN Append(accepted, imsg[c])
                                            ELSE accepted
                   /\ dropped' = IF r.took THEN dropped
                                           ELSE dropped \cup {imsg[c]}
             /\ c_locker_' = Free
             /\ ipc' = [ipc EXCEPT ![c] = "irq_ret"]
             /\ UNCHANGED fatal
    /\ UNCHANGED <<intf, tpc, tmsg, imsg, s, nextOrd, nextIrq, drained, bvars, kvars>>

\* The handler returns: the interrupted code resumes with interrupts on.
PushMessageIRQEnd(c) ==
    /\ IrqRuns(c)
    /\ ipc[c] = "irq_ret"
    /\ intf' = [intf EXCEPT ![c] = TRUE]
    /\ ipc' = [ipc EXCEPT ![c] = "none"]
    /\ imsg' = [imsg EXCEPT ![c] = NullMsg]
    /\ UNCHANGED <<messages_, capacity, c_locker_, tpc, tmsg, s,
                   nextOrd, nextIrq, fatal, accepted, dropped, drained, bvars, kvars>>

\* ----------------------------------------------------------- TakeMessages
\* The call (from the realm's scheduled slot on the owning core), the empty
\* local vector s, and NoInterrupsScope's constructor.
TakeMessagesBegin(c) ==
    /\ ThreadRuns(c)
    /\ c = Owner
    /\ tpc[c] = "idle"
    /\ s' = <<>>
    /\ intf' = [intf EXCEPT ![c] = FALSE]
    /\ tpc' = [tpc EXCEPT ![c] = "take_lock"]
    /\ UNCHANGED <<messages_, capacity, c_locker_, ipc, tmsg, imsg, nextOrd,
                   nextIrq, fatal, accepted, dropped, drained, bvars, kvars>>

\* ScopedLock lock(c_locker_)
TakeMessagesLock(c) ==
    /\ ThreadRuns(c)
    /\ tpc[c] = "take_lock"
    /\ c_locker_ = Free
    /\ c_locker_' = <<c, "thr">>
    /\ tpc' = [tpc EXCEPT ![c] = "take_body"]
    /\ UNCHANGED <<messages_, capacity, intf, ipc, tmsg, imsg, s, nextOrd,
                   nextIrq, fatal, accepted, dropped, drained, bvars, kvars>>

\* The critical section; both exits release the lock.
TakeMessagesBody(c) ==
    /\ ThreadRuns(c)
    /\ tpc[c] = "take_body"
    /\ LET r == SwapAndReserve(messages_, capacity) IN
        /\ s' = r.ret
        /\ messages_' = r.msgs
        /\ capacity' = r.cap
        /\ drained' = drained \o r.ret
    /\ c_locker_' = Free
    /\ tpc' = [tpc EXCEPT ![c] = "take_sti"]
    /\ UNCHANGED <<intf, ipc, tmsg, imsg, nextOrd, nextIrq, fatal, accepted,
                   dropped, bvars, kvars>>

\* NoInterrupsScope's destructor; the call returns s to the caller.
TakeMessagesEnd(c) ==
    /\ ThreadRuns(c)
    /\ tpc[c] = "take_sti"
    /\ intf' = [intf EXCEPT ![c] = TRUE]
    /\ tpc' = [tpc EXCEPT ![c] = "idle"]
    /\ s' = <<>>
    /\ UNCHANGED <<messages_, capacity, c_locker_, ipc, tmsg, imsg, nextOrd,
                   nextIrq, fatal, accepted, dropped, drained, bvars, kvars>>

Next ==
    \E c \in Cores :
        \/ PushMessageBegin(c)
        \/ PushMessageLock(c)
        \/ PushMessageBody(c)
        \/ PushMessageEnd(c)
        \/ PushMessageIRQBegin(c)
        \/ PushMessageIRQLock(c)
        \/ PushMessageIRQBody(c)
        \/ PushMessageIRQEnd(c)
        \/ TakeMessagesBegin(c)
        \/ TakeMessagesLock(c)
        \/ TakeMessagesBody(c)
        \/ TakeMessagesEnd(c)

Spec == Init /\ [][Next]_vars

\* Steps a core takes on its own once a call is under way (the calls
\* themselves, and the arrival of interrupts, are up to the environment).
ThreadStep(c) ==
    \/ PushMessageLock(c)
    \/ PushMessageBody(c)
    \/ PushMessageEnd(c)
    \/ TakeMessagesLock(c)
    \/ TakeMessagesBody(c)
    \/ TakeMessagesEnd(c)

IrqStep(c) ==
    \/ PushMessageIRQLock(c)
    \/ PushMessageIRQBody(c)
    \/ PushMessageIRQEnd(c)

\* A core keeps executing the code it is in; a spinning lock acquisition
\* succeeds once the lock stays free.
FairSpec ==
    Spec /\ \A c \in Cores : WF_vars(ThreadStep(c)) /\ WF_vars(IrqStep(c))

\* ------------------------------------------------- whole handlers, one core
\* SpecBurst runs each handler to completion on the owning core, which is
\* what the lock makes of them when nothing else contends, and leaves the
\* push-order histories alone.  It exists to reach the reserved capacity:
\* ordinary-context pushes are limited to the head of an inter-drain window
\* and to a full queue, which they grow.
OnlyOrd(q) == \A i \in 1 .. Len(q) : q[i][1] = "ord"

BurstPushMessage ==
    /\ tpc[Owner] = "idle"
    /\ nextOrd <= BurstOrd
    /\ OnlyOrd(messages_) \/ Len(messages_) = capacity
    /\ \E r \in PushBack(messages_, capacity, OrdMsg(nextOrd)) :
        /\ messages_' = r.msgs
        /\ capacity' = r.cap
    /\ nextOrd' = nextOrd + 1
    /\ burstPure' = FALSE
    /\ UNCHANGED <<c_locker_, intf, tpc, ipc, tmsg, imsg, s, nextIrq, fatal,
                   accepted, dropped, drained, burstCap, burstFrom, drains,
                   kvars>>

BurstPushMessageIRQ ==
    /\ tpc[Owner] = "idle"
    /\ nextIrq <= BurstIrq
    /\ LET r == PushBackIRQ(messages_, capacity, IrqMsg(nextIrq)) IN
        /\ messages_' = r.msgs
        /\ capacity' = r.cap
    /\ nextIrq' = nextIrq + 1
    /\ UNCHANGED <<c_locker_, intf, tpc, ipc, tmsg, imsg, s, nextOrd, fatal,
                   accepted, dropped, drained, bvars, kvars>>

\* TakeMessages up to its return statement: s holds the result.
BurstTakeMessages ==
    /\ tpc[Owner] = "idle"
    /\ LET r == SwapAndReserve(messages_, capacity) IN
        /\ s' = r.ret
        /\ messages_' = r.msgs
        /\ capacity' = r.cap
    /\ tpc' = [tpc EXCEPT ![Owner] = "take_sti"]
    /\ UNCHANGED <<c_locker_, intf, ipc, tmsg, imsg, nextOrd, nextIrq, fatal,
                   accepted, dropped, drained, bvars, kvars>>

\* The return: a new inter-drain window starts.
BurstTakeMessagesEnd ==
    /\ tpc[Owner] = "take_sti"
    /\ s' = <<>>
    /\ tpc' = [tpc EXCEPT ![Owner] = "idle"]
    /\ burstCap' = capacity
    /\ burstFrom' = nextIrq
    /\ burstPure' = TRUE
    /\ drains' = TRUE
    /\ UNCHANGED <<messages_, capacity, c_locker_, intf, ipc, tmsg, imsg,
                   nextOrd, nextIrq, fatal, accepted, dropped, drained, kvars>>

NextBurst ==
    \/ BurstPushMessage
    \/ BurstPushMessageIRQ
    \/ BurstTakeMessages
    \/ BurstTakeMessagesEnd

SpecBurst == Init /\ [][NextBurst]_vars

\* ===================================================================
\* ThreadMessage
\* ===================================================================
\* ThreadMessage::ThreadMessage(type, sender, data, efn, recv_index); the
\* payload is opaque and left out, efn keeps its default, no function.
NewThreadMessage(t, snd, k) ==
    [type_ |-> t, sender_ |-> snd, efn_ |-> FALSE, recv_index_ |-> k,
     reusable_ |-> FALSE]

\* The accessors type() and recv_index().
type_of(m) == m.type_
recv_index(m) == m.recv_index_
reusable(m) == m.reusable_

\* Mutant of MakeReusable: the message is reset for its next use.
MakeReusable_Reset(m) ==
    [m EXCEPT !.reusable_ = TRUE, !.type_ = "EMPTY", !.recv_index_ = 0]

\* ThreadMessage::MakeReusable
MakeReusable(m) == [m EXCEPT !.reusable_ = TRUE]

\* Mutant of sender: an empty handle is returned like any other.
sender_NoAssert(m) == [fatal |-> "none", ret |-> m.sender_]

\* ThreadMessage::sender: RT_ASSERT(!sender_.empty()); return sender_;
sender(m) ==
    IF m.sender_ = NoSender
        THEN [fatal |-> "sender: RT_ASSERT(!sender_.empty())", ret |-> NoSender]
        ELSE [fatal |-> "none", ret |-> m.sender_]

\* The realm's code runs on the owning core between handlers.
ConsumerRuns == fatal = "none" /\ tpc[Owner] = "idle"
\* The message of the drained batch the consumer is working on.
Current == s[processed + 1]

\* A message is constructed and handed to PushMessage.
MsgPushMessage(t, snd, k) ==
    /\ ConsumerRuns
    /\ Pushes < MaxMsgs
    /\ LET id == OrdMsg(nextOrd) IN
        /\ heap' = (id :> NewThreadMessage(t, snd, k)) @@ heap
        /\ made' = (id :> [type |-> t, sender |-> snd, recv_index |-> k]) @@ made
        /\ \E r \in PushBack(messages_, capacity, id) :
            /\ messages_' = r.msgs
            /\ capacity' = r.cap
    /\ nextOrd' = nextOrd + 1
    /\ UNCHANGED <<c_locker_, intf, tpc, ipc, tmsg, imsg, s, nextIrq, fatal,
                   accepted, dropped, drained, bvars, engvars, regvars,
                   ctlvars, khist, lifevars, locvars, processed, read>>

\* A message is constructed by an interrupt handler and handed to
\* PushMessageIRQ; a message that is not taken is the handler's to delete.
MsgPushMessageIRQ(t, snd, k) ==
    /\ ConsumerRuns
    /\ Pushes < MaxMsgs
    /\ LET id == IrqMsg(nextIrq)
           r == PushBackIRQ(messages_, capacity, id)
       IN /\ messages_' = r.msgs
          /\ capacity' = r.cap
          /\ heap' = IF r.took THEN (id :> NewThreadMessage(t, snd, k)) @@ heap
                               ELSE heap
          /\ made' = IF r.took
                        THEN (id :> [type |-> t, sender |-> snd,
                                     recv_index |-> k]) @@ made
                        ELSE made
    /\ nextIrq' = nextIrq + 1
    /\ UNCHANGED <<c_locker_, intf, tpc, ipc, tmsg, imsg, s, nextOrd, fatal,
                   accepted, dropped, drained, bvars, engvars, regvars,
                   ctlvars, khist, lifevars, locvars, processed, read>>

\* TakeMessages, once the consumer is done with the previous batch.
MsgTakeMessages ==
    /\ ConsumerRuns
    /\ processed = Len(s)
    /\ LET r == SwapAndReserve(messages_, capacity) IN
        /\ s' = r.ret
        /\ messages_' = r.msgs
        /\ capacity' = r.cap
    /\ processed' = 0
    /\ UNCHANGED <<c_locker_, intf, tpc, ipc, tmsg, imsg, nextOrd, nextIrq,
                   fatal, accepted, dropped, drained, bvars, engvars, regvars,
                   ctlvars, khist, lifevars, locvars, heap, made, read>>

\* The consumer reads the sender of the message it is working on.
MsgSender ==
    /\ ConsumerRuns
    /\ processed < Len(s)
    /\ LET r == sender(heap[Current]) IN
        /\ fatal' = r.fatal
        /\ read' = IF r.fatal = "none" THEN <<"sender", Current, r.ret>>
                                       ELSE read
    /\ UNCHANGED <<qvars, bvars, engvars, regvars, ctlvars, khist, lifevars,
                   locvars, heap, made, processed>>

\* The consumer marks the message it is working on reusable.
MsgMakeReusable ==
    /\ ConsumerRuns
    /\ processed < Len(s)
    /\ ~reusable(heap[Current])
    /\ heap' = [heap EXCEPT ![Current] = MakeReusable(@)]
    /\ UNCHANGED <<qvars, bvars, fatal, engvars, regvars, ctlvars, khist,
                   lifevars, locvars, made, processed, read>>

\* f without its value at x.
Without(f, x) == [y \in DOMAIN f \ {x} |-> f[y]]

\* The consumer is done with the message, which is freed or goes back to
\* its pool, and goes on to the next message of the batch.
MsgNext ==
    /\ ConsumerRuns
    /\ processed < Len(s)
    /\ processed' = processed + 1
    /\ heap' = Without(heap, Current)
    /\ made' = Without(made, Current)
    /\ read' = <<"none">>
    /\ UNCHANGED <<qvars, bvars, fatal, engvars, regvars, ctlvars, khist,
                   lifevars, locvars>>

\* SpecMsg: messages are constructed and pushed on either path, drained,
\* and worked through one by one by the realm's code.
NextMsg ==
    \/ \E t \in SentTypes, snd \in Senders, k \in RecvIndices :
            \/ MsgPushMessage(t, snd, k)
            \/ MsgPushMessageIRQ(t, snd, k)
    \/ MsgTakeMessages
    \/ MsgSender
    \/ MsgMakeReusable
    \/ MsgNext

SpecMsg == Init /\ [][NextMsg]_vars

\* ===================================================================
\* Engine, Engine::Threads and Isolate
\* ===================================================================
\* A core runs kernel code that may call into the registry while it is in
\* its boot code or inside the scheduler's run loop, and not inside
\* another call.
CanCall(c) == fatal = "none" /\ phase[c] \in {"boot", "run"} /\ op[c] = "none"

\* ---------------------------------------------------------- Threads::Create
\* ScopedLock lock(datalocker_) of Engine e's registry, by core c.  Realms
\* are created on the observed Engine.
CreateLock(c, e) ==
    /\ CanCall(c)
    /\ e = observed
    /\ nextRealm <= MaxRealms
    /\ datalocker_[e] = NoCore
    /\ datalocker_' = [datalocker_ EXCEPT ![e] = c]
    /\ op' = [op EXCEPT ![c] = "create"]
    /\ tgt' = [tgt EXCEPT ![c] = e]
    /\ UNCHANGED <<qvars, bvars, fatal, xvars, engvars, threads_, new_threads_,
                   thread_, nextRealm, phase, transport, idx, observed, khist>>

\* threads_.push_back(t); new_threads_.push_back(th); return th.
CreateLists(threads, new_threads, t) ==
    [threads |-> Append(threads, t), new_threads |-> Append(new_threads, t),
     th |-> t]

\* new EngineThread(engine_), both push_backs, the lock released, the
\* handle returned.
CreateBody(c) ==
    /\ fatal = "none"
    /\ op[c] = "create"
    /\ LET e == tgt[c]
           r == CreateLists(threads_[e], new_threads_[e], nextRealm)
       IN /\ threads_' = [threads_ EXCEPT ![e] = r.threads]
          /\ new_threads_' = [new_threads_ EXCEPT ![e] = r.new_threads]
          /\ staged' = [staged EXCEPT ![e] = Append(@, r.th)]
          /\ datalocker_' = [datalocker_ EXCEPT ![e] = NoCore]
    /\ nextRealm' = nextRealm + 1
    /\ op' = [op EXCEPT ![c] = "none"]
    /\ tgt' = [tgt EXCEPT ![c] = NoCore]
    /\ UNCHANGED <<qvars, bvars, fatal, xvars, engvars, thread_, phase, transport,
                   idx, observed, stagedAtEnter, claimed, built>>

\* ------------------------------------------------------------ Engine::Enter
\* Mutant of NewIsolate: the startup core is taken to be core 0.
NewIsolate_BootZero(cpu_id) ==
    [id |-> cpu_id, startup_script |-> (0 = cpu_id)]

\* new Isolate(this, cpu_id, 1 == cpu_id) and Isolate::Isolate.
NewIsolate(cpu_id) ==
    [id |-> cpu_id, startup_script |-> (BootCpuId = cpu_id)]

\* Mutant of EnterPhase: Cpu::HangSystem returns and Enter falls through.
EnterPhase_HangReturns(type) ==
    CASE type = "DISABLED" -> "returned"
      [] type = "SERVICE" -> "spin"
      [] type = "EXECUTION" -> "enter"

\* Where Enter's switch leaves the core: halted in Cpu::HangSystem, in the
\* Cpu::WaitPause loop, or (past `init_ = true`) in Isolate::Enter.
EnterPhase(type) ==
    CASE type = "DISABLED" -> "hang"
      [] type = "SERVICE" -> "spin"
      [] type = "EXECUTION" -> "enter"

\* RT_ASSERT(!init_); RT_ASSERT(!isolate_); the assertion that fails, if any.
EnterAsserts(init, isolate) ==
    IF init THEN "Enter: RT_ASSERT(!init_)"
    ELSE IF isolate THEN "Enter: RT_ASSERT(!isolate_)"
    ELSE "none"

\* The scheduler an Isolate is constructed with (new ThreadManager(this)):
\* its idle thread is there from the start and is the current thread until
\* the run loop schedules another.
NewThreadManager == IdleThread

\* Engine::Enter past its assertions, up to the point where it stops
\* returning: the switch, `init_ = true`, the call of Isolate::Enter.
EnterSwitch(c) ==
    /\ LET to == EnterPhase(type_[c])
           iso == NewIsolate(c)
       IN /\ phase' = [phase EXCEPT ![c] = to]
          /\ IF type_[c] = "EXECUTION"
                THEN /\ isolate_' = [isolate_ EXCEPT ![c] = TRUE]
                     /\ id_' = [id_ EXCEPT ![c] = iso.id]
                     /\ startup_script_' =
                            [startup_script_ EXCEPT ![c] = iso.startup_script]
                     /\ built' = [built EXCEPT ![c] = @ + 1]
                     /\ current_thread_' =
                            [current_thread_ EXCEPT ![c] = NewThreadManager]
                ELSE UNCHANGED <<isolate_, id_, startup_script_, built,
                                 current_thread_>>
          /\ init_' = [init_ EXCEPT ![c] = to \notin {"hang", "spin"}]
    /\ stagedAtEnter' = [stagedAtEnter EXCEPT ![c] = Range(new_threads_[c])]
    /\ UNCHANGED <<qvars, bvars, type_, local_storage_, thread_storage,
                   regvars, op, tgt, transport, idx, observed, staged,
                   claimed, ticks_counter_, tpl_cache_, caches, ticked, inits,
                   got, asked, wroteEngine, wroteThread, msgvars>>

\* Engine::Enter on core c, as the boot code calls it.  Both assertions
\* hold on a fresh Engine.
Enter(c) ==
    /\ fatal = "none"
    /\ phase[c] = "boot"
    /\ op[c] = "none"
    /\ EnterAsserts(init_[c], isolate_[c]) = "none"
    /\ entered' = [entered EXCEPT ![c] = @ + 1]
    /\ EnterSwitch(c)
    /\ UNCHANGED fatal

\* Engine::Enter invoked again on an Engine that has been entered (on a
\* halted core only a non-maskable interrupt could do so).  A failed
\* assertion aborts the kernel.
ReEnter(c) ==
    /\ fatal = "none"
    /\ phase[c] \in {"hang", "spin", "enter", "run"}
    /\ op[c] = "none"
    /\ entered[c] < MaxEnters
    /\ entered' = [entered EXCEPT ![c] = @ + 1]
    /\ LET a == EnterAsserts(init_[c], isolate_[c]) IN
        IF a # "none"
            THEN /\ fatal' = a
                 /\ UNCHANGED <<qvars, bvars, engvars, regvars, ctlvars,
                                khist, ticks_counter_, tpl_cache_, caches,
                                ticked, inits, locvars, msgvars>>
            ELSE /\ EnterSwitch(c)
                 /\ UNCHANGED fatal

\* Cpu::HangSystem: the core is halted for good.
HangSystem(c) ==
    /\ fatal = "none"
    /\ phase[c] = "hang"
    /\ UNCHANGED vars

\* for (;;) Cpu::WaitPause();
WaitPause(c) ==
    /\ fatal = "none"
    /\ phase[c] = "spin"
    /\ UNCHANGED vars

\* Mutant of ThreadLocalStore: the Engine's own store is used throughout.
ThreadLocalStore_Own(isolate) == "engine"

\* `if (nullptr == isolate_)` of ThreadLocalSet and ThreadLocalGet: the store
\* the call goes to.
ThreadLocalStore(isolate) == IF ~isolate THEN "engine" ELSE "thread"

\* Code that uses the local storage runs on the core in its boot code, in
\* Isolate::Enter and in the run loop, outside the registry calls.
CanUseLocal(c) ==
    fatal = "none" /\ phase[c] \in {"boot", "enter", "run"} /\ op[c] = "none"

\* Engine::ThreadLocalSet(index, value), one index: the Engine's own store
\* while there is no Isolate, the scheduled thread's store afterwards.
ThreadLocalSet(c, v) ==
    /\ CanUseLocal(c)
    /\ IF ThreadLocalStore(isolate_[c]) = "engine"
        THEN /\ local_storage_' = [local_storage_ EXCEPT ![c] = v]
             /\ UNCHANGED thread_storage
        ELSE /\ thread_storage' =
                    [thread_storage EXCEPT ![c][current_thread_[c]] = v]
             /\ UNCHANGED local_storage_
    /\ IF isolate_[c]
        THEN /\ wroteThread' = [wroteThread EXCEPT ![c][current_thread_[c]] = v]
             /\ UNCHANGED wroteEngine
        ELSE /\ wroteEngine' = [wroteEngine EXCEPT ![c] = v]
             /\ UNCHANGED wroteThread
    /\ UNCHANGED <<qvars, bvars, fatal, type_, isolate_, init_, id_,
                   startup_script_, regvars, ctlvars, khist, lifevars,
                   current_thread_, got, asked, msgvars>>

\* Engine::ThreadLocalGet(index), same index.
ThreadLocalGet(c) ==
    /\ CanUseLocal(c)
    /\ got' = [got EXCEPT ![c] =
                IF ThreadLocalStore(isolate_[c]) = "engine"
                    THEN local_storage_[c]
                    ELSE thread_storage[c][current_thread_[c]]]
    /\ asked' = [asked EXCEPT ![c] =
                IF isolate_[c] THEN <<"thread", current_thread_[c]>>
                               ELSE <<"engine">>]
    /\ UNCHANGED <<qvars, bvars, fatal, engvars, regvars, ctlvars, khist,
                   lifevars, current_thread_, wroteEngine, wroteThread,
                   msgvars>>

\* The scheduler's run loop switches the core to thread t.
Schedule(c, t) ==
    /\ fatal = "none"
    /\ phase[c] = "run"
    /\ op[c] = "none"
    /\ current_thread_[c] # t
    /\ current_thread_' = [current_thread_ EXCEPT ![c] = t]
    /\ UNCHANGED <<qvars, bvars, fatal, engvars, regvars, ctlvars, khist,
                   lifevars, got, asked, wroteEngine, wroteThread, msgvars>>

\* ThreadLocalSet as the boot code uses it, before the core enters.
BootThreadLocalSet(c, v) == phase[c] = "boot" /\ ThreadLocalSet(c, v)

\* ------------------------------------------------- Isolate::ProcessNewThreads
\* Called by Isolate::Enter, and from the run loop.  TakeNewThreads:
\* ScopedLock lock(datalocker_) of the core's own registry.
TakeNewThreadsLock(c) ==
    /\ fatal = "none"
    /\ c = observed
    /\ phase[c] \in {"enter", "run"}
    /\ op[c] = "none"
    /\ datalocker_[c] = NoCore
    /\ datalocker_' = [datalocker_ EXCEPT ![c] = c]
    /\ op' = [op EXCEPT ![c] = "take"]
    /\ UNCHANGED <<qvars, bvars, fatal, xvars, engvars, threads_, new_threads_,
                   thread_, nextRealm, phase, tgt, transport, idx, observed,
                   khist>>

\* Mutant of TakeNewThreadsLists: the staging list is copied, not swapped.
TakeNewThreadsLists_Copy(threads, new_threads) ==
    [transport |-> new_threads, new_threads |-> new_threads]

\* Mutant of TakeNewThreadsLists: the guard also skips a registry that
\* holds one realm.
TakeNewThreadsLists_SkipOne(threads, new_threads) ==
    IF Len(threads) <= 1
        THEN [transport |-> <<>>, new_threads |-> new_threads]
        ELSE [transport |-> new_threads, new_threads |-> <<>>]

\* if (0 == threads_.size()) return transport; new_threads_.swap(transport);
TakeNewThreadsLists(threads, new_threads) ==
    IF Len(threads) = 0
        THEN [transport |-> <<>>, new_threads |-> new_threads]
        ELSE [transport |-> new_threads, new_threads |-> <<>>]

\* Mutant of TakeNewThreadsUnlock: the early return leaves the lock held.
TakeNewThreadsUnlock_LeakOnEmpty(threads, c) ==
    IF Len(threads) = 0 THEN c ELSE NoCore

\* The ScopedLock is released on both returns.
TakeNewThreadsUnlock(threads, c) == NoCore

\* The critical section of TakeNewThreads and its return; the result is
\* moved into NewThreads.
TakeNewThreadsBody(c) ==
    /\ fatal = "none"
    /\ op[c] = "take"
    /\ LET r == TakeNewThreadsLists(threads_[c], new_threads_[c]) IN
        /\ transport' = [transport EXCEPT ![c] = r.transport]
        /\ new_threads_' = [new_threads_ EXCEPT ![c] = r.new_threads]
        /\ claimed' = claimed \cup Range(r.transport)
    /\ datalocker_' =
        [datalocker_ EXCEPT ![c] = TakeNewThreadsUnlock(threads_[c], c)]
    /\ staged' = [staged EXCEPT ![c] = <<>>]
    /\ idx' = [idx EXCEPT ![c] = 0]
    /\ op' = [op EXCEPT ![c] = "attach"]
    /\ UNCHANGED <<qvars, bvars, fatal, xvars, engvars, threads_, thread_, nextRealm,
                   phase, tgt, observed, stagedAtEnter, built>>

\* Isolate::NewThreads: returns at once for an empty vector, otherwise one
\* CreateThread per element, stored in the realm's thread_.  Returning into
\* Isolate::Enter leads on to thread_manager_->Run() (has_threads() holds:
\* the idle thread).
NewThreads(c) ==
    /\ fatal = "none"
    /\ op[c] = "attach"
    /\ IF Len(transport[c]) = 0
        THEN UNCHANGED thread_
        ELSE thread_' = [thread_ EXCEPT ![transport[c][idx[c] + 1]] = @ + 1]
    /\ IF idx[c] + 1 >= Len(transport[c])
        THEN /\ op' = [op EXCEPT ![c] = "none"]
             /\ transport' = [transport EXCEPT ![c] = <<>>]
             /\ idx' = [idx EXCEPT ![c] = 0]
             /\ phase' = [phase EXCEPT ![c] = "run"]
        ELSE /\ idx' = [idx EXCEPT ![c] = @ + 1]
             /\ UNCHANGED <<op, transport, phase>>
    /\ UNCHANGED <<qvars, bvars, fatal, xvars, engvars, threads_, new_threads_,
                   datalocker_, nextRealm, tgt, observed, khist>>

\* ------------------------------------------------------- Engine::TimerTick
\* Atomic<>::AddFetch.
AddFetch(value, n) == value + n

\* Mutant of TimerInterruptNotify: the counter is stored to, not added to.
TimerInterruptNotify_Store(ticks) == 1

\* Isolate::TimerInterruptNotify: ticks_counter_.AddFetch(1).
TimerInterruptNotify(ticks) == AddFetch(ticks, 1)

\* Mutant of TimerTickCounter: the Isolate pointer is not tested.
TimerTickCounter_NoTest(isolate, ticks) == TimerInterruptNotify(ticks)

\* Engine::TimerTick: forwards to the Isolate if there is one.
TimerTickCounter(isolate, ticks) ==
    IF isolate THEN TimerInterruptNotify(ticks) ELSE ticks

\* The timer interrupt on core c (a halted core takes none).
TimerTick(c) ==
    /\ fatal = "none"
    /\ phase[c] # "hang"
    /\ intf[c]
    /\ ticked[c] < MaxTicks
    /\ ticked' = [ticked EXCEPT ![c] = @ + 1]
    /\ ticks_counter_' =
        [ticks_counter_ EXCEPT ![c] = TimerTickCounter(isolate_[c], @)]
    /\ UNCHANGED <<qvars, bvars, fatal, engvars, regvars, ctlvars, khist,
                   entered, tpl_cache_, caches, inits, locvars, msgvars>>

\* ----------------------------------------------------------- Isolate::Init
\* Mutant of InitCache: the cache is rebuilt by every call.
InitCache_Rebuild(tpl_cache, n) == [tpl_cache |-> n + 1, caches |-> n + 1]

\* if (nullptr == tpl_cache_) tpl_cache_ = new TemplateCache(this);
\* n TemplateCache objects exist so far, the new one is number n + 1.
InitCache(tpl_cache, n) ==
    IF tpl_cache = NoCache
        THEN [tpl_cache |-> n + 1, caches |-> n + 1]
        ELSE [tpl_cache |-> tpl_cache, caches |-> n]

\* Isolate::Init, run on the idle thread's stack (so inside the run loop);
\* RT_ASSERT(tpl_cache_) holds, `new` having returned an object.
IsolateInit(c) ==
    /\ fatal = "none"
    /\ isolate_[c]
    /\ phase[c] = "run"
    /\ op[c] = "none"
    /\ inits[c] < MaxInits
    /\ inits' = [inits EXCEPT ![c] = @ + 1]
    /\ LET r == InitCache(tpl_cache_[c], caches[c]) IN
        /\ tpl_cache_' = [tpl_cache_ EXCEPT ![c] = r.tpl_cache]
        /\ caches' = [caches EXCEPT ![c] = r.caches]
    /\ UNCHANGED <<qvars, bvars, fatal, engvars, regvars, ctlvars, khist,
                   entered, ticks_counter_, ticked, locvars, msgvars>>

NextKernel ==
    \E c \in Cores :
        \/ \E e \in Cores : CreateLock(c, e)
        \/ CreateBody(c)
        \/ Enter(c)
        \/ HangSystem(c)
        \/ WaitPause(c)
        \/ \E v \in Values : BootThreadLocalSet(c, v)
        \/ TakeNewThreadsLock(c)
        \/ TakeNewThreadsBody(c)
        \/ NewThreads(c)

\* Any core may be the observed one, in any role.
InitKernel ==
    QueueInit /\ \E me \in Cores, type \in EngineTypes : EngineInit(me, type)

SpecKernel == InitKernel /\ [][NextKernel]_vars

\* ------------------------------------------------- the local storage
\* SpecLocal follows the observed Engine's core through Enter into the
\* run loop, with local-storage accesses and thread switches in between.
NextLocal ==
    \/ Enter(observed)
    \/ HangSystem(observed)
    \/ WaitPause(observed)
    \/ TakeNewThreadsLock(observed)
    \/ TakeNewThreadsBody(observed)
    \/ NewThreads(observed)
    \/ \E t \in Threads : Schedule(observed, t)
    \/ \E v \in Values : ThreadLocalSet(observed, v)
    \/ ThreadLocalGet(observed)

SpecLocal == InitKernel /\ [][NextLocal]_vars

\* -------------------------------------------- one Engine, its core's view
\* The realm of the queue is scheduled, pushed to and drained on the
\* observed core once that core is in its run loop.
RealmRuns == fatal = "none" /\ phase[observed] = "run" /\ op[observed] = "none"

EnginePushMessage == RealmRuns /\ nextOrd <= EnginePushes /\ BurstPushMessage
EngineTakeMessages == RealmRuns /\ BurstTakeMessages
EngineTakeMessagesEnd == RealmRuns /\ BurstTakeMessagesEnd

\* SpecEngine follows the observed Engine through the calls its own core
\* makes: Enter (and Enter again), the timer interrupt, Isolate::Init, the
\* registry and the queue.
NextEngine ==
    \/ Enter(observed)
    \/ ReEnter(observed)
    \/ HangSystem(observed)
    \/ WaitPause(observed)
    \/ TimerTick(observed)
    \/ IsolateInit(observed)
    \/ CreateLock(observed, observed)
    \/ CreateBody(observed)
    \/ TakeNewThreadsLock(observed)
    \/ TakeNewThreadsBody(observed)
    \/ NewThreads(observed)
    \/ EnginePushMessage
    \/ EngineTakeMessages
    \/ EngineTakeMessagesEnd

SpecEngine == InitKernel /\ [][NextEngine]_vars

\* ===================================================================
\* Properties of the realm's message queue
\* ===================================================================

\* C1: in every interleaving of PushMessage, PushMessageIRQ and TakeMessages
\* on one realm, the concatenation of all drain results, in drain order, is
\* a subsequence of the accepted messages in the order their pushes held
\* the queue lock.
C1_DrainsSubseqOfAccepted == IsSubseq(drained, accepted)

\* Two drains have returned messages of both paths, after a drop.
C1_Witness ==
    /\ Len(drained) >= 2
    /\ \E i, j \in 1 .. Len(drained) :
        drained[i][1] = "ord" /\ drained[j][1] = "irq"
    /\ dropped # {}
    /\ messages_ = <<>>

\* C2: PushMessageIRQ appends its message at the tail iff the size is
\* strictly below the capacity while it holds the lock, otherwise leaves the
\* contents alone; either way the capacity is unchanged and nothing aborts.
C2_IRQPushWithinCapacity ==
    [][\A c \in Cores :
        (ipc[c] = "irq_body" /\ imsg[c] # NullMsg /\ ipc'[c] # "irq_body")
        => /\ capacity' = capacity
           /\ fatal' = "none"
           /\ ipc'[c] = "irq_ret"
           /\ IF Len(messages_) < capacity
                THEN messages_' = Append(messages_, imsg[c])
                ELSE messages_' = messages_]_vars

\* One interrupt-context push was dropped and a later one accepted.
C2_Witness ==
    /\ dropped # {}
    /\ \E i \in 1 .. Len(accepted) : accepted[i][1] = "irq"

\* C3: with capacity C when a drain returns and only interrupt-context
\* pushes until the next drain, exactly the first C of them are in the
\* queue, in push order, and the next drain returns exactly those.
C3_Expected ==
    [i \in 1 .. Min(burstCap, nextIrq - burstFrom) |-> IrqMsg(burstFrom + i - 1)]

C3_BurstFirstCAccepted ==
    (drains /\ burstPure) =>
        IF tpc[Owner] = "take_sti"
            THEN s = C3_Expected /\ messages_ = <<>>
            ELSE messages_ = C3_Expected

\* A drain returns the 128 retained messages of a burst of BurstIrq pushes.
C3_Witness ==
    /\ drains /\ burstPure
    /\ tpc[Owner] = "take_sti"
    /\ burstCap = ReserveSlack
    /\ Len(s) = ReserveSlack
    /\ nextIrq - burstFrom = BurstIrq
    /\ BurstIrq > ReserveSlack

\* C4: TakeMessages returns the empty vector exactly when the queue is
\* empty while it holds the lock, and it does not wait for messages: once
\* it is spinning for the lock it returns (unless the kernel aborts).
C4_DrainEmptyIffNonePending ==
    /\ [][(tpc[Owner] = "take_body" /\ tpc'[Owner] # "take_body")
            => /\ (s' = <<>>) <=> (messages_ = <<>>)
               /\ tpc'[Owner] = "take_sti"]_vars
    /\ (tpc[Owner] = "take_lock") ~> (tpc[Owner] = "take_sti" \/ fatal # "none")

\* A drain returned empty while another core was inside a push.
C4_Witness ==
    /\ tpc[Owner] = "take_sti"
    /\ s = <<>>
    /\ \E c \in Cores : tpc[c] \in {"push_lock", "push_body"}

\* C5: PushMessage of a non-null message always appends it: when it
\* releases the lock the message is the last element of the live queue,
\* whatever the size and capacity were.
C5_OrdinaryPushAlwaysAccepted ==
    [][\A c \in Cores :
        (tpc[c] = "push_body" /\ tmsg[c] # NullMsg /\ tpc'[c] # "push_body")
        => /\ messages_' = Append(messages_, tmsg[c])
           /\ fatal' = "none"
           /\ tpc'[c] = "push_sti"]_vars

\* A push was accepted by a queue that was full.
C5_Witness ==
    \E c \in Cores :
        /\ tpc[c] = "push_sti"
        /\ Len(messages_) >= 2
        /\ Last(messages_) = tmsg[c]
        /\ capacity < ReserveSlack

\* C16: a drain that finds the queue non-empty returns exactly its
\* contents, in order, and leaves the live queue empty with a capacity of
\* 128, however far the queue had grown; the interrupt-context pushes that
\* follow with no other push in between are accepted up to the 128th.
C16_NonEmptyDrainSwapsAndReserves ==
    /\ [][(tpc[Owner] = "idle" /\ tpc'[Owner] = "take_sti" /\ messages_ # <<>>)
          => /\ s' = messages_
             /\ messages_' = <<>>
             /\ capacity' = ReserveSlack]_vars
    /\ [][(tpc[Owner] = "take_sti" /\ tpc'[Owner] = "idle" /\ s # <<>>)
          => burstCap' = ReserveSlack]_vars
    /\ []((drains /\ burstPure /\ burstCap = ReserveSlack /\ tpc[Owner] = "idle")
          => /\ capacity = ReserveSlack
             /\ Len(messages_) = Min(ReserveSlack, nextIrq - burstFrom)
             /\ \A i \in 1 .. Len(messages_) :
                    messages_[i] = IrqMsg(burstFrom + i - 1))

\* A queue that had grown beyond 128 messages has just been drained.
C16_Witness ==
    /\ tpc[Owner] = "take_sti"
    /\ Len(s) > ReserveSlack
    /\ messages_ = <<>>
    /\ capacity = ReserveSlack

\* C18: in every reachable state the accepted messages, in the order their
\* pushes held the lock, are the concatenation of all drain results so far
\* followed by the contents of the live queue: no accepted message is lost
\* or drained twice, whatever pushes interleave with a drain.
C18_AcceptedIsDrainedThenQueued == accepted = drained \o messages_

\* A push by another core or an interrupt handler got into the live queue
\* between a drain's swap and its return.
C18_Witness ==
    /\ tpc[Owner] = "take_sti"
    /\ s # <<>>
    /\ messages_ # <<>>
    /\ dropped # {}

\* The step in which the holder of the queue lock leaves its critical
\* section.
HolderReleases(c) ==
    PushMessageBody(c) \/ TakeMessagesBody(c) \/ PushMessageIRQBody(c)

\* C19: PushMessage and TakeMessages hold the queue lock only with the
\* interrupts of their core disabled, on every path, so an interrupt
\* handler never runs on a core whose interrupted code holds the lock; the
\* holder of the lock can always take the step that releases it (unless an
\* assertion has aborted the kernel), so producers, handlers and the
\* consumer do not deadlock on it.
C19_NoSelfDeadlock ==
    \A c \in Cores :
        /\ c_locker_ = <<c, "thr">> => (~intf[c] /\ ipc[c] = "none")
        /\ tpc[c] \in {"push_lock", "push_body", "take_lock", "take_body"}
            => ~intf[c]
        /\ ipc[c] # "none" => tpc[c] = "idle"
        /\ \A k \in {"thr", "irq"} :
            (c_locker_ = <<c, k>> /\ fatal = "none")
                => ENABLED HolderReleases(c)

\* Under weak fairness of each core's own steps (FairSpec) a held lock is
\* therefore always released again.
HeldLockIsReleased ==
    (c_locker_ # Free) ~> (c_locker_ = Free \/ fatal # "none")

\* A handler spins for the lock while the thread of another core holds it
\* inside TakeMessages, and a third party waits too.
C19_Witness ==
    \E c \in Cores :
        /\ ipc[c] = "irq_lock"
        /\ c_locker_ = <<Owner, "thr">>
        /\ c # Owner
        /\ tpc[Owner] = "take_body"

\* Handlers that have neither dropped nor appended their message yet.
InFlight == {c \in Cores : ipc[c] \in {"irq_lock", "irq_body"}}

\* C20: a drain that finds the queue empty changes neither the queue nor its
\* capacity; so as long as no ordinary-context push has been issued on a new
\* realm the capacity stays 0, every interrupt-context push is dropped and
\* every drain returns empty.
C20_NoHeadroomBeforeFirstOrdinaryPush ==
    /\ [](nextOrd = 1
            => /\ capacity = 0
               /\ messages_ = <<>> /\ s = <<>>
               /\ accepted = <<>> /\ drained = <<>>
               /\ Cardinality(dropped) + Cardinality(InFlight) = nextIrq - 1)
    /\ [][(tpc[Owner] = "take_body" /\ tpc'[Owner] # "take_body"
                /\ messages_ = <<>>)
          => /\ capacity' = capacity
             /\ messages_' = messages_
             /\ s' = <<>>]_vars

\* Drains and interrupt-context pushes only: two messages dropped so far
\* and a drain returning empty.
C20_Witness ==
    /\ nextOrd = 1
    /\ Cardinality(dropped) >= 2
    /\ tpc[Owner] = "take_sti"
    /\ s = <<>>

\* ===================================================================
\* Properties of the registry and of Engine::Enter
\* ===================================================================

\* C6: N calls of Create yield N distinct handles, the next TakeNewThreads
\* returns exactly those N (in the order created), and a TakeNewThreads
\* with no Create since the previous one returns the empty vector.
C6_TakeReturnsCreatedSinceLastTake ==
    [][\A c \in Cores :
        /\ NoDup(threads_'[c])
        /\ (op[c] = "take" /\ op'[c] # "take")
            => /\ transport'[c] = staged[c]
               /\ NoDup(transport'[c])
               /\ new_threads_'[c] = <<>>]_vars

\* The first TakeNewThreads of a core has just returned two handles.
C6_Witness ==
    \E c \in Cores :
        /\ op[c] = "attach" /\ idx[c] = 0
        /\ Len(transport[c]) >= 2
        /\ Len(transport[c]) = Len(threads_[c])

\* C7 as claimed: a TakeNewThreads call on a registry that never created a
\* realm does not hold the registry lock.
C7_NoLockingWhenNeverCreated ==
    \A c \in Cores :
        (op[c] = "take" /\ threads_[c] = <<>>) => datalocker_[c] # c

\* C7, amended: a TakeNewThreads call on a registry that never created a
\* realm returns the empty vector and leaves both lists unchanged; it does
\* take the registry lock, and has released it when it returns.
C7_EmptyTakeLeavesListsAndLock ==
    [][\A c \in Cores :
        (op[c] = "take" /\ op'[c] # "take" /\ threads_[c] = <<>>)
        => /\ transport'[c] = <<>>
           /\ threads_' = threads_
           /\ new_threads_' = new_threads_
           /\ datalocker_[c] = c
           /\ datalocker_'[c] = NoCore]_vars

\* Such a call has just returned.
C7_Witness ==
    \E c \in Cores :
        /\ op[c] = "attach"
        /\ threads_[c] = <<>>
        /\ transport[c] = <<>>
        /\ datalocker_[c] = NoCore

\* Realm r is in a vector NewThreads is still working through.
Pending(r) ==
    \E c \in Cores :
        /\ op[c] = "attach"
        /\ \E i \in (idx[c] + 1) .. Len(transport[c]) : transport[c][i] = r

\* C8: whatever the interleaving of Create with Isolate::Enter and
\* ProcessNewThreads, a realm's thread_ is assigned at most once, every
\* realm a TakeNewThreads returned has it assigned exactly once when
\* NewThreads is done with it, and the realms staged when Isolate::Enter
\* was called all have it before the run loop is entered.
C8_AttachedExactlyOnce ==
    /\ \A r \in Realms :
        /\ thread_[r] <= 1
        /\ r \in claimed => thread_[r] = (IF Pending(r) THEN 0 ELSE 1)
        /\ r \notin claimed => thread_[r] = 0
    /\ \A c \in Cores :
        phase[c] = "run" => \A r \in stagedAtEnter[c] : thread_[r] = 1

\* The run loop is reached with a realm staged before Isolate::Enter and a
\* realm created later both attached.
C8_Witness ==
    \E c \in Cores :
        /\ phase[c] = "run"
        /\ stagedAtEnter[c] # {}
        /\ \E r \in claimed \ stagedAtEnter[c] : thread_[r] = 1

\* C9: Enter on an EXECUTION Engine constructs exactly one Isolate, with
\* id_ the calling core's id and startup_script_ true iff that core is the
\* bootstrap core, and goes on into Isolate::Enter.
C9_EnterBuildsOneIsolate ==
    \A c \in Cores :
        (type_[c] = "EXECUTION" /\ phase[c] # "boot")
        => /\ isolate_[c]
           /\ built[c] = 1
           /\ id_[c] = c
           /\ startup_script_[c] <=> (c = BootCpuId)
           /\ phase[c] \in {"enter", "run"}

\* The bootstrap core has just entered.
C9_Witness ==
    /\ observed = BootCpuId
    /\ phase[observed] = "enter"
    /\ isolate_[observed] /\ startup_script_[observed]

\* C10: Enter on a DISABLED or SERVICE Engine never returns and changes
\* nothing further: the core stays halted (or spinning), no Isolate is ever
\* constructed, init_ is never set, and Enter modifies neither the registry
\* nor the local storage.
C10_DisabledNeverReturns ==
    [][\A c \in Cores :
        type_[c] \in {"DISABLED", "SERVICE"}
        => /\ ~isolate_'[c] /\ ~init_'[c] /\ built'[c] = 0
           /\ phase[c] # "boot"
                => /\ phase'[c] = phase[c]
                   /\ op'[c] = "none"
                   /\ local_storage_'[c] = local_storage_[c]
           /\ (phase[c] = "boot" /\ phase'[c] # "boot")
                => /\ phase'[c] = (IF type_[c] = "DISABLED" THEN "hang" ELSE "spin")
                   /\ UNCHANGED <<threads_, new_threads_, datalocker_,
                                  local_storage_, thread_storage>>]_vars

\* A halted core, whose registry another core has since added a realm to.
C10_Witness ==
    \E c \in Cores :
        /\ type_[c] = "DISABLED"
        /\ phase[c] = "hang"
        /\ local_storage_[c] # NoValue
        /\ threads_[c] # <<>>

\* ===================================================================
\* Properties of Engine::Enter, the timer tick and Isolate::Init
\* ===================================================================

\* C11: every invocation of Enter on an Engine that has been entered before
\* fails an assertion; at most one Isolate is ever constructed per Engine,
\* and only for an EXECUTION Engine.
C11_ReEnterAlwaysFatal ==
    \A c \in Cores :
        /\ entered[c] >= 2 => fatal # "none"
        /\ built[c] <= 1
        /\ built[c] = 1 => type_[c] = "EXECUTION"

\* What Enter does when invoked again: on an EXECUTION Engine (the only
\* kind that sets init_ and isolate_) it fails RT_ASSERT(!init_) and
\* constructs nothing; on a DISABLED or SERVICE Engine, whose init_ is never
\* set, it passes both assertions and halts or spins again, changing
\* nothing.  At most one Isolate is ever constructed per Engine, and only
\* for an EXECUTION Engine.
ReEnterFatalOnceInitialized ==
    /\ [](\A c \in Cores :
            /\ (entered[c] >= 2 /\ type_[c] = "EXECUTION")
                => fatal = "Enter: RT_ASSERT(!init_)"
            /\ (entered[c] >= 2 /\ type_[c] # "EXECUTION")
                => /\ fatal = "none"
                   /\ phase[c] = (IF type_[c] = "DISABLED" THEN "hang" ELSE "spin")
                   /\ ~init_[c]
            /\ built[c] <= 1
            /\ isolate_[c] <=> built[c] = 1
            /\ built[c] = 1 => type_[c] = "EXECUTION")
    /\ [][\A c \in Cores :
            (entered[c] >= 1 /\ entered'[c] > entered[c])
            => UNCHANGED <<qvars, bvars, engvars, regvars, ctlvars, khist,
                           ticks_counter_, tpl_cache_, caches, ticked, inits,
                           locvars, msgvars>>]_vars

C13_TicksOnlyByTimerTick ==
    [][\A c \in Cores :
        /\ ticks_counter_'[c] >= ticks_counter_[c]
        /\ ticked'[c] = ticked[c] => ticks_counter_'[c] = ticks_counter_[c]
        /\ ticked'[c] # ticked[c]
            => IF isolate_[c]
                 THEN ticks_counter_'[c] = ticks_counter_[c] + 1
                 ELSE UNCHANGED <<qvars, bvars, fatal, engvars, regvars,
                                  ctlvars, khist, entered, ticks_counter_,
                                  tpl_cache_, caches, inits, locvars,
                                  msgvars>>]_vars

\* A tick before Enter was ignored, later ones were counted, and pushes, a
\* drain, a Create and an Init have run since.
C13_Witness ==
    \E c \in Cores :
        /\ ticks_counter_[c] >= 1
        /\ ticked[c] > ticks_counter_[c]
        /\ nextOrd > 1 /\ drains
        /\ threads_[c] # <<>>
        /\ tpl_cache_[c] # NoCache

\* ===================================================================
\* Properties of ThreadMessage
\* ===================================================================

\* C14: every message, and so a FUNCTION_CALL and a FUNCTION_RETURN_RESOLVE
\* or FUNCTION_RETURN_REJECT constructed with the same recv_index k, reports
\* the recv_index and the type it was constructed with, whatever pushes,
\* drains and MakeReusable calls have happened since; call and return
\* report the same index.
C14_RecvIndexRoundTrips ==
    /\ \A m \in DOMAIN heap :
        /\ recv_index(heap[m]) = made[m].recv_index
        /\ type_of(heap[m]) = made[m].type
    /\ \A a, b \in DOMAIN heap :
        (/\ made[a].type = "FUNCTION_CALL"
         /\ made[b].type \in {"FUNCTION_RETURN_RESOLVE", "FUNCTION_RETURN_REJECT"}
         /\ made[a].recv_index = made[b].recv_index)
        => recv_index(heap[a]) = recv_index(heap[b])

\* A call with a non-default index has been pushed, drained and marked
\* reusable while the return with that index is in the queue.
C14_Witness ==
    /\ processed < Len(s)
    /\ made[Current].type = "FUNCTION_CALL"
    /\ made[Current].recv_index = 5
    /\ reusable(heap[Current])
    /\ \E i \in 1 .. Len(messages_) :
        /\ made[messages_[i]].type = "FUNCTION_RETURN_REJECT"
        /\ made[messages_[i]].recv_index = 5

\* C15: sender() on a message constructed with an empty sender handle fails
\* its assertion and returns nothing; on a message with a sender it returns
\* the handle given to the constructor.
C15_SenderRequiresPresent ==
    [][(/\ processed < Len(s)
        /\ processed' = processed
        /\ (read' # read \/ fatal' # fatal))
       => IF made[Current].sender = NoSender
            THEN fatal' = "sender: RT_ASSERT(!sender_.empty())" /\ read' = read
            ELSE /\ fatal' = "none"
                 /\ read' = <<"sender", Current, made[Current].sender>>]_vars

\* The sender of a drained message without one has been read.
C15_Witness ==
    /\ processed < Len(s)
    /\ made[Current].sender = NoSender
    /\ fatal = "sender: RT_ASSERT(!sender_.empty())"

\* C17: over any sequence of Isolate::Init calls on one Isolate the
\* template cache is constructed exactly once, by the first call; every
\* later call leaves tpl_cache_ unchanged; after every call it is present.
C17_InitBuildsCacheOnce ==
    /\ [](\A c \in Cores :
            /\ inits[c] = 0 => (tpl_cache_[c] = NoCache /\ caches[c] = 0)
            /\ inits[c] >= 1 => (tpl_cache_[c] # NoCache /\ caches[c] = 1))
    /\ [][\A c \in Cores :
            (inits[c] >= 1 /\ inits'[c] > inits[c])
            => (tpl_cache_'[c] = tpl_cache_[c] /\ caches'[c] = caches[c])]_vars

\* Init has been called twice on one Isolate.
C17_Witness ==
    \E c \in Cores :
        /\ inits[c] = 2
        /\ tpl_cache_[c] = 1
        /\ caches[c] = 1

TypeOK ==
    /\ Len(messages_) <= capacity
    /\ c_locker_ \in {Free} \cup (Cores \X {"thr", "irq"})
====
